---- MODULE Spec2Model ----
(***************************************************************************)
(* A model of the durable log of ptsolmyr/raft-annotation: the Log of      *)
(* src/log.go (Open, Close, Append, SetCommitIndex and the command         *)
(* registry) and the line codec of src/log_entry.go (Encode, Decode).      *)
(*                                                                         *)
(* The backing file is a sequence of bytes (character codes).  Encode      *)
(* formats an entry into such bytes and Decode parses them back, with      *)
(* the CRC-32/IEEE of hash/crc32 computed bit for bit.  A 32-bit word is   *)
(* kept as four bytes, most significant first, because the model checker   *)
(* has 32-bit signed integers.                                             *)
(***************************************************************************)
EXTENDS Integers, Sequences, FiniteSets, TLC

(***************************************************************************)
(* Character codes of the bytes the format strings of log_entry.go use.    *)
(***************************************************************************)
SP == 32
NL == 10
TAB == 9
CR == 13
QUOTE == 34
COLON == 58
LBRACE == 123
RBRACE == 125

Min(S) == CHOOSE x \in S : \A y \in S : x <= y

Max(S) == CHOOSE x \in S : \A y \in S : x >= y

Drop(s, n) == SubSeq(s, n + 1, Len(s))

Take(s, n) == SubSeq(s, 1, n)

(***************************************************************************)
(* Hexadecimal text, as fmt prints it with %x (lower case) and scans it    *)
(* (either case).                                                          *)
(***************************************************************************)
HexDigit(v) == IF v < 10 THEN 48 + v ELSE 87 + v

IsHex(c) == (c >= 48 /\ c <= 57) \/ (c >= 97 /\ c <= 102) \/ (c >= 65 /\ c <= 70)

HexVal(c) == IF c <= 57 THEN c - 48 ELSE IF c >= 97 THEN c - 87 ELSE c - 55

\* fmt's isSpace on the bytes of the model's alphabet
IsSpace(c) == c \in {SP, TAB, CR, NL}

\* Fprintf("%0<w>x", n) for 0 <= n < 2^31: w digits, zero padded
Hex(n, w) ==
    [i \in 1..w |-> HexDigit(IF w - i >= 8 THEN 0 ELSE (n \div (16 ^ (w - i))) % 16)]

\* the bytes of a 32-bit word <<b3, b2, b1, b0>> printed with %08x
HexWord(word) ==
    [i \in 1..8 |-> HexDigit(IF i % 2 = 1 THEN word[(i + 1) \div 2] \div 16
                                          ELSE word[i \div 2] % 16)]

\* the value of a run of hexadecimal digits (strconv.ParseUint, base 16)
RECURSIVE ParseHex(_)
ParseHex(ds) ==
    IF ds = <<>> THEN 0 ELSE 16 * ParseHex(Take(ds, Len(ds) - 1)) + HexVal(ds[Len(ds)])

\* a run of at most 8 hexadecimal digits as a 32-bit word <<b3, b2, b1, b0>>
WordOfHex(ds) ==
    LET pad == [i \in 1..(8 - Len(ds)) |-> 48] \o ds
    IN  [i \in 1..4 |-> 16 * HexVal(pad[2 * i - 1]) + HexVal(pad[2 * i])]

(***************************************************************************)
(* crc32.ChecksumIEEE: the reflected polynomial 0xedb88320, a table of     *)
(* 256 words, initial value and final complement 0xffffffff.               *)
(***************************************************************************)
RECURSIVE XorBits(_, _, _)
XorBits(a, b, n) ==
    IF n = 0 THEN 0
    ELSE ((a + b) % 2) + 2 * XorBits(a \div 2, b \div 2, n - 1)

XorTable == [a \in 0..255 |-> [b \in 0..255 |-> XorBits(a, b, 8)]]

Xor8(a, b) == XorTable[a][b]

Xor16(a, b) == 256 * Xor8(a \div 256, b \div 256) + Xor8(a % 256, b % 256)

\* 0xedb88320 as two 16-bit halves
IEEEHi == 60856
IEEELo == 33568

\* one of the 8 shift steps that build a table word, on halves <<hi, lo>>
CrcShift(w) ==
    LET hi == w[1] \div 2
        lo == (w[2] \div 2) + 32768 * (w[1] % 2)
    IN  IF w[2] % 2 = 1 THEN <<Xor16(hi, IEEEHi), Xor16(lo, IEEELo)>> ELSE <<hi, lo>>

RECURSIVE CrcShiftN(_, _)
CrcShiftN(w, n) == IF n = 0 THEN w ELSE CrcShiftN(CrcShift(w), n - 1)

IEEETable ==
    [n \in 0..255 |->
        LET w == CrcShiftN(<<0, n>>, 8)
        IN  <<w[1] \div 256, w[1] % 256, w[2] \div 256, w[2] % 256>>]

\* one byte into the running checksum <<b3, b2, b1, b0>>
CrcUpdate(crc, byte) ==
    LET t == IEEETable[Xor8(crc[4], byte)]
    IN  <<t[1], Xor8(t[2], crc[1]), Xor8(t[3], crc[2]), Xor8(t[4], crc[3])>>

\* the bytes s[lo..hi] into the running checksum, by halves to keep the
\* evaluation shallow
RECURSIVE CrcRange(_, _, _, _)
CrcRange(crc, s, lo, hi) ==
    IF lo > hi THEN crc
    ELSE IF lo = hi THEN CrcUpdate(crc, s[lo])
    ELSE LET mid == (lo + hi) \div 2
             left == CrcRange(crc, s, lo, mid)
         IN  IF Len(left) = 4 THEN CrcRange(left, s, mid + 1, hi) ELSE left

ChecksumIEEE(s) ==
    LET c == CrcRange(<<255, 255, 255, 255>>, s, 1, Len(s))
    IN  <<255 - c[1], 255 - c[2], 255 - c[3], 255 - c[4]>>

(***************************************************************************)
(* The Command capability (an application type behind the interface of     *)
(* log_entry.go): a command is [name, val], a Go struct with one string    *)
(* field K holding the bytes val, and Name() returning name.               *)
(* json.Marshal writes it as {"K":"<val>"}.                                *)
(***************************************************************************)
KEY == 75

Marshal(command) == <<LBRACE, QUOTE, KEY, QUOTE, COLON, QUOTE>> \o command.val \o <<QUOTE, RBRACE>>

NewLogEntry(index, term, command) == [index |-> index, term |-> term, command |-> command]

\* the payload line Encode builds in its buffer (log_entry.go line 72)
EncodeLine(e) ==
    Hex(e.index, 16) \o <<SP>> \o Hex(e.term, 16) \o <<SP>> \o e.command.name
        \o <<SP>> \o Marshal(e.command) \o <<NL>>

\* the bytes Encode hands to the writer in one Fprintf
Encode(e) ==
    LET b == EncodeLine(e)
    IN  HexWord(ChecksumIEEE(b)) \o <<SP>> \o b

(***************************************************************************)
(* fmt.Fscanf, for the two formats Decode uses.                            *)
(***************************************************************************)
\* how many of the first `limit` bytes of buf satisfy P in a row
LeadRun(buf, P(_), limit) ==
    LET m == IF limit < Len(buf) THEN limit ELSE Len(buf)
    IN  Min({i \in 1..m : ~P(buf[i])} \cup {m + 1}) - 1

IsBlank(c) == c \in {SP, TAB, CR}

NotSpace(c) == ~IsSpace(c)

\* a %x verb of the given width: SkipSpace, then at least one and at most
\* width (less the spaces skipped) hexadecimal digits
ScanUint(buf, width) ==
    LET sk == LeadRun(buf, IsBlank, width)
        rest == Drop(buf, sk)
        nd == LeadRun(rest, IsHex, width - sk)
    IN  IF sk < width /\ rest # <<>> /\ rest[1] = NL THEN [ok |-> FALSE, digits |-> <<>>, n |-> sk]
        ELSE IF nd = 0 THEN [ok |-> FALSE, digits |-> <<>>, n |-> sk]
        ELSE [ok |-> TRUE, digits |-> Take(rest, nd), n |-> sk + nd]

\* a space of the format: the input must hold a space or end there, a
\* newline does not match, and the run of spaces is consumed
ScanSpace(buf) ==
    IF buf = <<>> THEN [ok |-> TRUE, n |-> 0]
    ELSE IF buf[1] = NL \/ ~IsSpace(buf[1]) THEN [ok |-> FALSE, n |-> 0]
    ELSE [ok |-> TRUE, n |-> LeadRun(buf, IsBlank, Len(buf))]

\* a %s verb: SkipSpace, then the run of bytes up to the next space
ScanString(buf) ==
    LET sk == LeadRun(buf, IsBlank, Len(buf))
        rest == Drop(buf, sk)
        nt == LeadRun(rest, NotSpace, Len(rest))
    IN  IF rest = <<>> \/ rest[1] = NL THEN [ok |-> FALSE, token |-> <<>>, n |-> sk]
        ELSE [ok |-> TRUE, token |-> Take(rest, nt), n |-> sk + nt]

\* Fscanf(b, "%016x %016x %s ", &index, &term, &commandName)
ScanHeader(line) ==
    LET bad == [ok |-> FALSE, index |-> 0, term |-> 0, name |-> <<>>, n |-> 0]
        a == ScanUint(line, 16)
        r1 == Drop(line, a.n)
        s1 == ScanSpace(r1)
        r2 == Drop(r1, s1.n)
        b == ScanUint(r2, 16)
        r3 == Drop(r2, b.n)
        s2 == ScanSpace(r3)
        r4 == Drop(r3, s2.n)
        c == ScanString(r4)
        r5 == Drop(r4, c.n)
        s3 == ScanSpace(r5)
    IN  IF ~a.ok THEN bad
        ELSE IF ~s1.ok THEN bad
        ELSE IF ~b.ok THEN bad
        ELSE IF ~s2.ok THEN bad
        ELSE IF ~c.ok THEN bad
        ELSE IF ~s3.ok THEN bad
        ELSE [ok |-> TRUE, index |-> ParseHex(a.digits), term |-> ParseHex(b.digits),
              name |-> c.token, n |-> a.n + s1.n + b.n + s2.n + c.n + s3.n]

(***************************************************************************)
(* json.NewDecoder(b).Decode(&command), on the bytes left in b.  The       *)
(* decoder pulls b into its own buffer in reads of at least JsonMinRead    *)
(* bytes (the buffer grows to 2*cap + JsonMinRead when full) until the     *)
(* scanner has seen the end of one value; what it has pulled is gone from  *)
(* b whether the value used it or not.  An object ends at its closing      *)
(* brace.  The values of this model are objects with at most one string    *)
(* member and no escapes; any other first byte is not the start of one.    *)
(***************************************************************************)
JsonMinRead == 512

RECURSIVE JsonBufferEnd(_, _)
JsonBufferEnd(need, cap) ==
    IF cap >= need THEN cap ELSE JsonBufferEnd(need, 2 * cap + JsonMinRead)

\* the index of the quote closing the string opened at buf[open], or 0
StringEnd(buf, open) ==
    LET qs == {i \in (open + 1)..Len(buf) : buf[i] = QUOTE}
    IN  IF qs = {} THEN 0 ELSE Min(qs)

\* the index of the first byte at or after `from` that is not JSON white
\* space, or Len(buf) + 1
SkipWhite(buf, from) == from + LeadRun(Drop(buf, from - 1), IsSpace, Len(buf))

\* the scan of one object: [ok, end (index of the closing brace), key, str]
ScanObject(buf) ==
    LET bad == [ok |-> FALSE, end |-> 0, key |-> <<>>, str |-> <<>>]
        n == Len(buf)
        p0 == SkipWhite(buf, 1)
        p1 == SkipWhite(buf, p0 + 1)
        k2 == StringEnd(buf, p1)
        p2 == SkipWhite(buf, k2 + 1)
        p3 == SkipWhite(buf, p2 + 1)
        v2 == StringEnd(buf, p3)
        p4 == SkipWhite(buf, v2 + 1)
    IN  IF p0 > n \/ buf[p0] # LBRACE THEN bad
        ELSE IF p1 > n THEN bad
        ELSE IF buf[p1] = RBRACE THEN [ok |-> TRUE, end |-> p1, key |-> <<>>, str |-> <<>>]
        ELSE IF buf[p1] # QUOTE \/ k2 = 0 THEN bad
        ELSE IF p2 > n \/ buf[p2] # COLON THEN bad
        ELSE IF p3 > n \/ buf[p3] # QUOTE \/ v2 = 0 THEN bad
        ELSE IF p4 > n \/ buf[p4] # RBRACE THEN bad
        ELSE [ok |-> TRUE, end |-> p4, key |-> SubSeq(buf, p1 + 1, k2 - 1),
              str |-> SubSeq(buf, p3 + 1, v2 - 1)]

\* [ok, val, taken]: the value unmarshalled into a new command (a member
\* other than K is ignored), and how many bytes of buf the decoder pulled
JsonDecode(buf) ==
    LET o == ScanObject(buf)
        pulled == JsonBufferEnd(o.end, JsonMinRead)
    IN  IF ~o.ok THEN [ok |-> FALSE, val |-> <<>>, taken |-> Len(buf)]
        ELSE [ok |-> TRUE,
              val |-> IF o.key = <<KEY>> THEN o.str ELSE <<>>,
              taken |-> IF pulled < Len(buf) THEN pulled ELSE Len(buf)]

(***************************************************************************)
(* The command registry of a Log: commandTypes is the set of registered    *)
(* names (every prototype has the one shape of Marshal).                   *)
(***************************************************************************)
\* the nil Command, as a value: no name, no fields
NoCommand == [name |-> <<>>, val |-> <<>>]

\* a NewCommand that instantiates any name
NewCommandAnyName(commandTypes, name) == TRUE

\* whether NewCommand(name) returns a command (and no error)
NewCommand(commandTypes, name) == name \in commandTypes

\* the copy NewCommand makes: a new value of the prototype's type, its
\* fields zero
EmptyCommand(name) == [name |-> name, val |-> <<>>]

\* NewCommand(name) on the log l: what it returns and the log it leaves
NewCommandResult(l, name) ==
    IF NewCommand(l.commandTypes, name)
    THEN [log |-> l, err |-> "", command |-> EmptyCommand(name)]
    ELSE [log |-> l, err |-> "unregistered", command |-> NoCommand]

(***************************************************************************)
(* LogEntry.Decode on the bytes r left in the reader, for a log with the   *)
(* given registry.  err is "" on success and else names the failing step;  *)
(* pos is the count Decode returns, used the number of bytes it took from  *)
(* the reader.                                                             *)
(***************************************************************************)
DecodeResult(err, pos, used, index, term, command) ==
    [err |-> err, pos |-> pos, used |-> used, index |-> index, term |-> term,
     command |-> command]

\* steps 5 to 8, on a line whose checksum matched
DecodeLine(line, commandTypes, pos, used, h) ==
    LET body == Drop(line, h.n)
        j == JsonDecode(body)
    IN  IF ~h.ok THEN DecodeResult("scan", pos, used, 0, 0, NoCommand)
        ELSE IF ~NewCommand(commandTypes, h.name)
            THEN DecodeResult("instantiate", pos, used, h.index, h.term, NoCommand)
        ELSE IF ~j.ok THEN DecodeResult("decode", pos, used, h.index, h.term, NoCommand)
        ELSE IF Drop(body, j.taken) # <<>>
            THEN DecodeResult("eol", pos, used, h.index, h.term, NoCommand)
        ELSE DecodeResult("", pos, used, h.index, h.term, [name |-> h.name, val |-> j.val])

\* steps 3 to 8 without the comparison of the checksums
DecodeRestUnverified(rest, commandTypes, sum, nls) ==
    LET line == IF nls = {} THEN rest ELSE Take(rest, Min(nls))
        pos == 9 + Len(line)
        used == sum.n + 1 + Len(line)
    IN  IF nls = {} THEN DecodeResult("eof", pos, used, 0, 0, NoCommand)
        ELSE DecodeLine(line, commandTypes, pos, used, ScanHeader(line))

\* steps 3 and 4, on the bytes after the checksum and its space
DecodeRest(rest, commandTypes, sum, nls) ==
    LET line == IF nls = {} THEN rest ELSE Take(rest, Min(nls))
        pos == 9 + Len(line)
        used == sum.n + 1 + Len(line)
    IN  IF nls = {} THEN DecodeResult("eof", pos, used, 0, 0, NoCommand)
        ELSE IF WordOfHex(sum.digits) # ChecksumIEEE(line)
            THEN DecodeResult("crc", pos, used, 0, 0, NoCommand)
        ELSE DecodeLine(line, commandTypes, pos, used, ScanHeader(line))

Decode(r, commandTypes) ==
    LET sum == ScanUint(r, 8)
        after == Drop(r, sum.n)
        rest == Drop(after, 1)
    IN  IF ~sum.ok THEN DecodeResult("checksum", 0, sum.n, 0, 0, NoCommand)
        ELSE IF after = <<>> \/ after[1] # SP
            THEN DecodeResult("space", 8, sum.n + (IF after = <<>> THEN 0 ELSE 1), 0, 0, NoCommand)
        ELSE DecodeRest(rest, commandTypes, sum, {i \in 1..Len(rest) : rest[i] = NL})

(***************************************************************************)
(* The Log of log.go and its one backing file.                             *)
(*   file          whether l.file holds a handle (it is nil otherwise)     *)
(*   entries       l.entries                                               *)
(*   commitIndex   l.commitIndex                                           *)
(*   commandTypes  the names registered in l.commandTypes                  *)
(*   exists, disk  whether the file at the path exists, and its bytes      *)
(*   last          the last call and what it returned: op, err ("" for     *)
(*                 success), and the index a SetCommitIndex was given      *)
(*   faults        how many I/O failures the environment has injected      *)
(*   codec         the state of the codec specification (SpecCodec)        *)
(*   mutex         l.mutex: 0 when unlocked, else the caller that holds it *)
(*   callers       where each concurrent caller is in its call (SpecMutex) *)
(* The operations are functions from a log record [file, entries,          *)
(* commitIndex, commandTypes, exists, disk, err] to the record after the   *)
(* call, err being what the call returns.                                  *)
(***************************************************************************)
VARIABLES file, entries, commitIndex, commandTypes, exists, disk, last, faults, codec,
          mutex, callers

vars ==
    <<file, entries, commitIndex, commandTypes, exists, disk, last, faults, codec,
      mutex, callers>>

logVars ==
    <<file, entries, commitIndex, commandTypes, exists, disk, last, faults, mutex, callers>>

\* bounds of the model
MaxIndex == 2
MaxTerm == 2
MaxEntries == 3
MaxFaults == 1
PartialLen == 12
MaxCallers == 2
MaxCalls == 2

\* the command names "n" and "m", and the commands the callers append
NameN == <<110>>

NameM == <<109>>

LogNames == {NameN, NameM}

LogCommands == {[name |-> name, val |-> <<120>>] : name \in LogNames}

Indexes == 1..MaxIndex

Terms == 1..MaxTerm

Result(op, err, index) == [op |-> op, err |-> err, index |-> index]

CodecIdle == [pc |-> "idle"]

\* the entries the callers of the log append, and the line Encode writes for
\* each (Encode is a function of the entry alone)
LogEntries ==
    {NewLogEntry(index, term, command) : index \in Indexes, term \in Terms,
                                         command \in LogCommands}

EncodedLine == [e \in LogEntries |-> Encode(e)]

\* the log as a record
TheLog ==
    [file |-> file, entries |-> entries, commitIndex |-> commitIndex,
     commandTypes |-> commandTypes, exists |-> exists, disk |-> disk, err |-> ""]

\* the concurrent callers of SpecMutex, and a caller that is in no call and
\* has made n calls
Callers == 1..MaxCallers

Idle(n) == [at |-> "idle", calls |-> n]

\* the step that replaces the log by the record r a call returned; the call
\* takes the mutex, if it takes it, and releases it within the step
Becomes(r, op, index) ==
    /\ UNCHANGED <<mutex, callers>>
    /\ file' = r.file
    /\ entries' = r.entries
    /\ commitIndex' = r.commitIndex
    /\ commandTypes' = r.commandTypes
    /\ exists' = r.exists
    /\ disk' = r.disk
    /\ last' = Result(op, r.err, index)

\* NewLog: no file handle, no entries, commitIndex 0, an empty registry
NewLog ==
    /\ file = FALSE
    /\ entries = <<>>
    /\ commitIndex = 0
    /\ commandTypes = {}
    /\ last = Result("NewLog", "", 0)
    /\ faults = 0
    /\ mutex = 0
    /\ callers = [c \in Callers |-> Idle(0)]

Init ==
    /\ NewLog
    /\ exists = FALSE
    /\ disk = <<>>
    /\ codec = CodecIdle

\* the nil Command: it has no name, and stands here as a value no name equals
NilCommand == <<-1>>

\* AddCommandType(command), name being command.Name(): nil, or a name already
\* registered, panics and registers nothing
AddCommandTypeResult(l, name) ==
    IF name = NilCommand THEN [l EXCEPT !.err = "panic"]
    ELSE IF name \in l.commandTypes THEN [l EXCEPT !.err = "panic"]
    ELSE [l EXCEPT !.commandTypes = l.commandTypes \cup {name}, !.err = ""]

AddCommandType(name) ==
    /\ Becomes(AddCommandTypeResult(TheLog, name), "AddCommandType", 0)
    /\ UNCHANGED <<faults, codec>>

\* the replay loop of Open over the bytes left in the reader; d is what the
\* iteration's one call of Decode returns
RECURSIVE Replay(_, _, _, _, _)
Replay(rest, types, es, c, lastIndex) ==
    IF rest = <<>>
    THEN [entries |-> es, commitIndex |-> c, lastIndex |-> lastIndex, failed |-> FALSE]
    ELSE CHOOSE r \in
           {IF d.err # ""
            THEN [entries |-> es, commitIndex |-> c, lastIndex |-> lastIndex,
                  failed |-> TRUE]
            ELSE Replay(Drop(rest, d.used), types,
                        Append(es, NewLogEntry(d.index, d.term, d.command)),
                        d.index, lastIndex + d.pos) : d \in {Decode(rest, types)}} : TRUE

\* a Truncate that leaves the file as it is
TruncateNothing(d, size) == d

\* os.Truncate: cut to size, or extend with zero bytes
Truncate(d, size) ==
    IF size <= Len(d) THEN Take(d, size) ELSE d \o [i \in 1..(size - Len(d)) |-> 0]

\* an Open that keeps the handle it had when the reopening for append fails
OpenOutcomeKeepsHandle(l, r, fail) ==
    LET read == [l EXCEPT !.entries = r.entries, !.commitIndex = r.commitIndex]
        cut == IF r.failed THEN [read EXCEPT !.disk = Truncate(l.disk, r.lastIndex)] ELSE read
        replayed == IF l.exists THEN cut ELSE l
    IN  IF l.exists /\ fail = "open" THEN [l EXCEPT !.err = "open"]
        ELSE IF l.exists /\ r.failed /\ fail = "truncate" THEN [read EXCEPT !.err = "recover"]
        ELSE IF fail = "append" THEN [replayed EXCEPT !.err = "append"]
        ELSE [replayed EXCEPT !.file = TRUE, !.exists = TRUE, !.err = ""]

\* What Open(path) makes of a log l whose replay loop yields r.  fail is the
\* I/O call the environment lets fail, if any: "open" (os.Open), "truncate"
\* (os.Truncate), "append" (os.OpenFile).
OpenOutcome(l, r, fail) ==
    LET read == [l EXCEPT !.entries = r.entries, !.commitIndex = r.commitIndex]
        cut == IF r.failed THEN [read EXCEPT !.disk = Truncate(l.disk, r.lastIndex)] ELSE read
        replayed == IF l.exists THEN cut ELSE l
    IN  IF l.exists /\ fail = "open" THEN [l EXCEPT !.err = "open"]
        ELSE IF l.exists /\ r.failed /\ fail = "truncate" THEN [read EXCEPT !.err = "recover"]
        ELSE IF fail = "append" THEN [replayed EXCEPT !.file = FALSE, !.err = "append"]
        ELSE [replayed EXCEPT !.file = TRUE, !.exists = TRUE, !.err = ""]

OpenResult(l, fail) ==
    OpenOutcome(l, Replay(l.disk, l.commandTypes, l.entries, l.commitIndex, 0), fail)

\* the I/O failures the environment may inject into one Open
OpenFails == IF faults < MaxFaults THEN {"none", "open", "truncate", "append"} ELSE {"none"}

Open ==
    \E replay \in {Replay(disk, commandTypes, entries, commitIndex, 0)} :
        \E fail \in OpenFails :
          \E r \in {OpenOutcome(TheLog, replay, fail)} :
              /\ fail # "none" => r.err # ""
              /\ Len(r.entries) <= MaxEntries
              /\ Becomes(r, "Open", 0)
              /\ faults' = IF fail = "none" THEN faults ELSE faults + 1
              /\ UNCHANGED codec

\* a Close that also resets commitIndex, as NewLog leaves it
CloseResetsCommitIndex(l) ==
    [l EXCEPT !.file = FALSE, !.entries = <<>>, !.commitIndex = 0, !.err = ""]

\* Close: drop the handle and the entries; commitIndex is not touched
CloseResult(l) == [l EXCEPT !.file = FALSE, !.entries = <<>>, !.err = ""]

Close ==
    /\ Becomes(CloseResult(TheLog), "Close", 0)
    /\ UNCHANGED <<faults, codec>>

\* a scan that advances commitIndex to the entry whose write failed
RECURSIVE CommitScanCountsFailure(_, _, _, _, _, _, _)
CommitScanCountsFailure(es, index, c, d, handle, budget, part) ==
    IF es = <<>> THEN [commitIndex |-> c, disk |-> d, err |-> ""]
    ELSE LET e == Head(es)
         IN  IF e.index > c /\ e.index <= index
             THEN IF ~handle THEN [commitIndex |-> e.index, disk |-> d, err |-> "write"]
                  ELSE IF budget = 0
                  THEN [commitIndex |-> e.index, disk |-> d \o Take(EncodedLine[e], part),
                        err |-> "write"]
                  ELSE CommitScanCountsFailure(Tail(es), index, e.index,
                                               d \o EncodedLine[e], handle, budget - 1, part)
             ELSE CommitScanCountsFailure(Tail(es), index, c, d, handle, budget, part)

\* the scan of SetCommitIndex over the entries es still to visit, with c the
\* running commitIndex and d the file; EncodedLine[e] is what e.Encode writes.  The write of the entry reached when
\* budget is 0 fails after `part` bytes; a nil handle fails every write.
RECURSIVE CommitScan(_, _, _, _, _, _, _)
CommitScan(es, index, c, d, handle, budget, part) ==
    IF es = <<>> THEN [commitIndex |-> c, disk |-> d, err |-> ""]
    ELSE LET e == Head(es)
         IN  IF e.index > c /\ e.index <= index
             THEN IF ~handle THEN [commitIndex |-> c, disk |-> d, err |-> "write"]
                  ELSE IF budget = 0
                  THEN [commitIndex |-> c, disk |-> d \o Take(EncodedLine[e], part),
                        err |-> "write"]
                  ELSE CommitScan(Tail(es), index, e.index, d \o EncodedLine[e], handle,
                                  budget - 1, part)
             ELSE CommitScan(Tail(es), index, c, d, handle, budget, part)

\* a SetCommitIndex without the check of index against commitIndex
SetCommitIndexUnchecked(l, index, budget, part) ==
    LET r == CommitScan(l.entries, index, l.commitIndex, l.disk, l.file, budget, part)
    IN  [l EXCEPT !.commitIndex = r.commitIndex, !.disk = r.disk, !.err = r.err]

\* SetCommitIndex(index).  budget < 0: the environment fails no write.
SetCommitIndexResult(l, index, budget, part) ==
    LET r == CommitScan(l.entries, index, l.commitIndex, l.disk, l.file, budget, part)
    IN  IF index < l.commitIndex THEN [l EXCEPT !.err = "ahead"]
        ELSE [l EXCEPT !.commitIndex = r.commitIndex, !.disk = r.disk, !.err = r.err]

\* the write failures the environment may inject into one SetCommitIndex
Budgets == IF file /\ faults < MaxFaults THEN -1..(Len(entries) - 1) ELSE {-1}

Parts(budget) == IF budget >= 0 THEN {0, PartialLen} ELSE {0}

SetCommitIndex(index, budget, part) ==
    \E r \in {SetCommitIndexResult(TheLog, index, budget, part)} :
        /\ budget >= 0 => r.err = "write"
        /\ Becomes(r, "SetCommitIndex", index)
        /\ faults' = IF budget >= 0 THEN faults + 1 ELSE faults
        /\ UNCHANGED codec

\* an Append that compares terms only
AppendErrorTermOnly(es, handle, entry) ==
    LET lastEntry == es[Len(es)]
    IN  IF ~handle THEN "not open"
        ELSE IF Len(es) > 0 /\ entry.term < lastEntry.term THEN "earlier term"
        ELSE ""

\* Append(entry)
AppendError(es, handle, entry) ==
    LET lastEntry == es[Len(es)]
    IN  IF ~handle THEN "not open"
        ELSE IF Len(es) > 0 /\ entry.term < lastEntry.term THEN "earlier term"
        ELSE IF Len(es) > 0 /\ entry.index = lastEntry.index
                            /\ entry.index <= lastEntry.index THEN "earlier index"
        ELSE ""

AppendResult(l, entry) ==
    LET err == AppendError(l.entries, l.file, entry)
    IN  IF err # "" THEN [l EXCEPT !.err = err]
        ELSE [l EXCEPT !.entries = Append(l.entries, entry), !.err = ""]

AppendEntry(entry) ==
    \E r \in {AppendResult(TheLog, entry)} :
        /\ Len(r.entries) <= MaxEntries
        /\ Becomes(r, "Append", 0)
        /\ UNCHANGED <<faults, codec>>

Next ==
    \/ \E name \in LogNames \cup {NilCommand} : AddCommandType(name)
    \/ Open
    \/ Close
    \/ \E index \in 0..MaxIndex, budget \in Budgets : \E part \in Parts(budget) :
          SetCommitIndex(index, budget, part)
    \/ \E entry \in LogEntries : AppendEntry(entry)

Spec == Init /\ [][Next]_vars

(***************************************************************************)
(* What the file holds, read as Decode reads it with every command name    *)
(* registered: the entries of its lines, a line that does not decode being *)
(* skipped up to its newline.                                              *)
(***************************************************************************)
LineEnd(rest) == LeadRun(rest, LAMBDA b : b # NL, Len(rest)) + 1

RECURSIVE DiskEntries(_)
DiskEntries(rest) ==
    IF rest = <<>> THEN <<>>
    ELSE CHOOSE r \in
           {IF d.err = ""
            THEN <<NewLogEntry(d.index, d.term, d.command)>> \o DiskEntries(Drop(rest, d.used))
            ELSE DiskEntries(Drop(rest, Min({LineEnd(rest), Len(rest)}))) :
                d \in {Decode(rest, LogNames)}} : TRUE

\* the entries of es with index at most i
UpTo(es, i) == SelectSeq(es, LAMBDA e : e.index <= i)

\* es holds its entries in strictly increasing index order
Increasing(es) == \A k \in 1..(Len(es) - 1) : es[k].index < es[k + 1].index

\* the states just after a SetCommitIndex(i) that returned success on an
\* open log
Committed == last.op = "SetCommitIndex" /\ last.err = "" /\ file

\* the log closed and opened again on the same path, no I/O call failing
Reopened == OpenResult(CloseResult(TheLog), "none")

(***************************************************************************)
(* C1.  Durability prefix: whenever SetCommitIndex(i) has returned success *)
(* on an open log, closing the log and opening it again yields exactly the *)
(* entries that had index <= i, unchanged, and commitIndex = i.  Stated    *)
(* for the logs most favourable to it: every command name in memory is     *)
(* registered, the entries are in strictly increasing index order, and an  *)
(* entry of index i is held (so that commitIndex = i before the reopen).   *)
(***************************************************************************)
C1_DurabilityPrefix ==
    (/\ Committed
     /\ commitIndex = last.index
     /\ Increasing(entries)
     /\ \A k \in 1..Len(entries) : entries[k].command.name \in commandTypes)
        => /\ Reopened.err = ""
           /\ Reopened.entries = UpTo(entries, last.index)
           /\ Reopened.commitIndex = last.index

(***************************************************************************)
(* C2.  commitIndex never decreases: in every step of every operation its  *)
(* value after the step is at least its value before.                      *)
(***************************************************************************)
C2_CommitIndexNeverDecreases == [][commitIndex' >= commitIndex]_vars

(***************************************************************************)
(* C3.  Commit monotonicity of calls: when SetCommitIndex(i) has returned  *)
(* success on an open log and has left commitIndex = i, an immediately     *)
(* following SetCommitIndex(j) with j < i returns an error and leaves      *)
(* commitIndex = i.                                                        *)
(***************************************************************************)
C3_CommitMonotonicity ==
    [][(/\ Committed
        /\ commitIndex = last.index
        /\ last'.op = "SetCommitIndex"
        /\ last'.index < last.index)
           => (last'.err # "" /\ commitIndex' = last.index)]_vars

\* C3 witness: SetCommitIndex(i) has just advanced commitIndex to i > 0 on an
\* open log, and a SetCommitIndex(i - 1) now would be refused
C3_Witness ==
    /\ Committed
    /\ commitIndex = last.index
    /\ last.index > 0
    /\ SetCommitIndexResult(TheLog, last.index - 1, -1, 0).err = "ahead"

\* C3 as first stated: any SetCommitIndex(i) that returned success is followed
\* by the refusal of SetCommitIndex(j), j < i, with commitIndex left at i
C3_AsStated ==
    [][(/\ Committed
        /\ last'.op = "SetCommitIndex"
        /\ last'.index < last.index)
           => (last'.err # "" /\ commitIndex' = last.index)]_vars

(***************************************************************************)
(* C4.  In every state of an open log, the in-memory entries of index <=   *)
(* commitIndex are in the file exactly once each and in the order they     *)
(* were appended: the file's entries, restricted to those, are that        *)
(* sequence.                                                               *)
(***************************************************************************)
C4_CommittedEntriesWrittenOnce ==
    file =>
        LET committed == UpTo(entries, commitIndex)
            held == {committed[k] : k \in 1..Len(committed)}
        IN  SelectSeq(DiskEntries(disk), LAMBDA e : e \in held) = committed

(***************************************************************************)
(* C5.  Any two consecutive entries e1, e2 of the in-memory sequence have  *)
(* e2.term >= e1.term, and e2.index > e1.index when the terms are equal.   *)
(***************************************************************************)
C5_EntriesOrdered ==
    \A k \in 1..(Len(entries) - 1) :
        /\ entries[k + 1].term >= entries[k].term
        /\ entries[k + 1].term = entries[k].term => entries[k + 1].index > entries[k].index

\* the fields a rejected call must leave alone
Untouched(r) ==
    /\ r.entries = entries
    /\ r.commitIndex = commitIndex
    /\ r.disk = disk
    /\ r.exists = exists
    /\ r.file = file

(***************************************************************************)
(* C7.  Usage errors are rejected without effect: Append without a file    *)
(* handle, Append of a term below the last entry's, Append of an index     *)
(* equal to the last entry's, and SetCommitIndex(index) with index <       *)
(* commitIndex each return an error and leave the entries, commitIndex and *)
(* the file as they were.                                                  *)
(***************************************************************************)
C7_UsageErrorsRejected ==
    /\ \A entry \in LogEntries :
          (\/ ~file
           \/ Len(entries) > 0 /\ entry.term < entries[Len(entries)].term
           \/ Len(entries) > 0 /\ entry.index = entries[Len(entries)].index)
              => \E r \in {AppendResult(TheLog, entry)} : r.err # "" /\ Untouched(r)
    /\ \A index \in 0..MaxIndex :
          index < commitIndex
              => \E r \in {SetCommitIndexResult(TheLog, index, -1, 0)} :
                    r.err # "" /\ Untouched(r)

\* C7 witness: an Append has just been refused for repeating the last index,
\* on an open log on which SetCommitIndex(0) would be refused as well
C7_Witness ==
    /\ last.op = "Append"
    /\ last.err = "earlier index"
    /\ file
    /\ commitIndex > 0

(***************************************************************************)
(* C8.  The file holds no entry of index > commitIndex; Append never       *)
(* writes to the file or changes commitIndex, and only SetCommitIndex adds *)
(* lines to the file.                                                      *)
(***************************************************************************)
C8_FileWithinCommitIndex ==
    /\ [](\A k \in 1..Len(DiskEntries(disk)) : DiskEntries(disk)[k].index <= commitIndex)
    /\ [][last'.op = "Append" => disk' = disk /\ commitIndex' = commitIndex]_vars
    /\ [][Len(disk') > Len(disk) => last'.op = "SetCommitIndex"]_vars

(***************************************************************************)
(* C9.  Close from an open state leaves no file handle and no entries and  *)
(* keeps commitIndex at the value it had; the file is not touched, and a   *)
(* second Close changes nothing.                                           *)
(***************************************************************************)
C9_CloseKeepsCommitIndex ==
    file => \E c \in {CloseResult(TheLog)} :
                /\ c.file = FALSE
                /\ c.entries = <<>>
                /\ c.commitIndex = commitIndex
                /\ c.disk = disk
                /\ c.err = ""
                /\ CloseResult(c) = c

\* C9 witness: a Close has left a log without handle or entries whose
\* commitIndex is not that of a new log
C9_Witness ==
    /\ last.op = "Close"
    /\ file = FALSE
    /\ entries = <<>>
    /\ commitIndex > 0

\* C9 as first stated: Close leaves the commitIndex of a newly constructed log
C9_AsStated ==
    file => \E c \in {CloseResult(TheLog)} :
                /\ c.file = FALSE
                /\ c.entries = <<>>
                /\ c.commitIndex = 0
                /\ CloseResult(c) = c

(***************************************************************************)
(* The codec on its own: one entry is encoded, and the line is decoded     *)
(* against a registry.  codec.pc is "idle", "encoded" or "decoded".        *)
(***************************************************************************)
\* the payload lengths tried: the serialized command is 8 bytes longer than
\* its value, so the last one serializes to JsonMinRead bytes
CodecLens == {0, 1, JsonMinRead - 9, JsonMinRead - 8}

\* the names "n", "n m" and "" and the values "", "x", "xx..x"
CodecNames == {NameN, <<110, SP, 109>>, <<>>}

CodecCommands ==
    {[name |-> name, val |-> [i \in 1..len |-> 120]] : name \in CodecNames, len \in CodecLens}

CodecEntries ==
    {NewLogEntry(index, term, command) : index \in {0, 1, 2147483647}, term \in {0, 1},
                                         command \in CodecCommands}

InitCodec ==
    /\ NewLog
    /\ exists = FALSE
    /\ disk = <<>>
    /\ codec = CodecIdle

\* e.Encode(w) into an empty writer, for a decoder whose registry is types
CodecEncode(e, types) ==
    /\ codec.pc = "idle"
    /\ codec' = [pc |-> "encoded", entry |-> e, types |-> types, line |-> Encode(e)]
    /\ UNCHANGED logVars

\* Decode of the line just written
CodecDecode ==
    /\ codec.pc = "encoded"
    /\ codec' = [pc |-> "decoded", entry |-> codec.entry, types |-> codec.types,
                 line |-> codec.line, result |-> Decode(codec.line, codec.types)]
    /\ UNCHANGED logVars

NextCodec ==
    \/ \E e \in CodecEntries, types \in SUBSET CodecNames : CodecEncode(e, types)
    \/ CodecDecode

SpecCodec == InitCodec /\ [][NextCodec]_vars

\* a name that is one whitespace-free token
IsToken(name) == name # <<>> /\ \A i \in 1..Len(name) : ~IsSpace(name[i])

(***************************************************************************)
(* C10.  Round trip: for every entry whose command name is registered (and *)
(* is a whitespace-free token) and whose payload serializes without a      *)
(* newline, Decode of the line Encode wrote succeeds and yields the same   *)
(* index, term, command name and payload.                                  *)
(***************************************************************************)
C10_RoundTrip ==
    (/\ codec.pc = "decoded"
     /\ codec.entry.command.name \in codec.types
     /\ IsToken(codec.entry.command.name)
     /\ NL \notin {codec.line[i] : i \in 1..(Len(codec.line) - 1)})
        => /\ codec.result.err = ""
           /\ codec.result.index = codec.entry.index
           /\ codec.result.term = codec.entry.term
           /\ codec.result.command = codec.entry.command

(***************************************************************************)
(* Recovery: a new log is opened on a file a crash left behind, lines      *)
(* written by Encode followed by bytes that are no valid line.  No I/O     *)
(* call fails.                                                             *)
(***************************************************************************)
\* the entries whose lines the crash files hold, in index order; the third
\* one's command serializes to JsonMinRead bytes
CrashEntries ==
    <<NewLogEntry(1, 1, [name |-> NameN, val |-> <<120>>]),
      NewLogEntry(2, 1, [name |-> NameM, val |-> <<120>>]),
      NewLogEntry(3, 2, [name |-> NameN, val |-> [i \in 1..(JsonMinRead - 8) |-> 120]])>>

\* the sequences of crash entries that keep the index order
CrashPrefixes ==
    {SelectSeq(CrashEntries, LAMBDA e : e.index \in keep) : keep \in SUBSET (1..Len(CrashEntries))}

RECURSIVE Lines(_)
Lines(es) == IF es = <<>> THEN <<>> ELSE Encode(Head(es)) \o Lines(Tail(es))

\* a line whose checksum field is wrong
BadChecksum(line) == <<(IF line[1] = 48 THEN 49 ELSE 48)>> \o Tail(line)

\* the tails: a line cut short, a line without its newline, a line whose
\* checksum is wrong, and a byte that is no hex digit
CrashTails ==
    LET line == Encode(CrashEntries[1])
    IN  {Take(line, PartialLen), Take(line, Len(line) - 1), BadChecksum(line), <<120>>}

CrashFiles ==
    {[entries |-> es, bytes |-> Lines(es) \o tail, valid |-> Len(Lines(es))] :
        es \in CrashPrefixes, tail \in CrashTails}

InitRecovery ==
    /\ NewLog
    /\ exists = TRUE
    /\ disk \in {f.bytes : f \in CrashFiles}
    /\ codec = CodecIdle

\* Open on the log while it is new: this specification's environment fails
\* no I/O call
Recover ==
    /\ file = FALSE
    /\ \E replay \in {Replay(disk, commandTypes, entries, commitIndex, 0)} :
          Becomes(OpenOutcome(TheLog, replay, "none"), "Open", 0)
    /\ UNCHANGED <<faults, codec>>

NextRecovery ==
    \/ \E name \in LogNames : AddCommandType(name)
    \/ Recover

SpecRecovery == InitRecovery /\ [][NextRecovery]_vars

(***************************************************************************)
(* C6.  Crash-tail recovery: on a file of N lines written by Encode        *)
(* followed by bytes that form no valid line, Open on a new log (on which  *)
(* the names of the N commands are registered) returns no error, leaves    *)
(* exactly the N entries in memory in file order, and truncates the file   *)
(* to the length of the N lines.                                           *)
(***************************************************************************)
C6_CrashTailRecovery ==
    [][\A f \in CrashFiles :
          (/\ last'.op = "Open"
           /\ file = FALSE
           /\ disk = f.bytes
           /\ \A k \in 1..Len(f.entries) : f.entries[k].command.name \in commandTypes)
              => /\ last'.err = ""
                 /\ entries' = f.entries
                 /\ disk' = Take(f.bytes, f.valid)]_vars

(***************************************************************************)
(* C11.  Registry contract: NewCommand(name) returns a new empty instance  *)
(* exactly when an earlier AddCommandType registered the name, fails as    *)
(* unregistered otherwise, and never changes the registry;                 *)
(* AddCommandType of the nil command or of a name already registered       *)
(* panics and leaves the registry as it was.  The registry starts empty    *)
(* and changes only by a successful AddCommandType, which adds one name,   *)
(* so the names in it are those registered earlier.                        *)
(***************************************************************************)
C11_RegistryContract ==
    /\ [](\A name \in LogNames :
            \E r \in {NewCommandResult(TheLog, name)} :
               /\ r.log = TheLog
               /\ name \in commandTypes => r.err = "" /\ r.command = EmptyCommand(name)
               /\ name \notin commandTypes => r.err = "unregistered" /\ r.command = NoCommand)
    /\ [](\A name \in LogNames \cup {NilCommand} :
            (name = NilCommand \/ name \in commandTypes)
               => \E r \in {AddCommandTypeResult(TheLog, name)} :
                     r.err = "panic" /\ r.commandTypes = commandTypes)
    /\ [][commandTypes' # commandTypes
             => /\ last'.op = "AddCommandType"
                /\ last'.err = ""
                /\ \E name \in LogNames \ commandTypes :
                      commandTypes' = commandTypes \cup {name}]_vars

\* C11 witness: an AddCommandType has just panicked on a log where one name
\* is registered and another is not
C11_Witness ==
    /\ last.op = "AddCommandType"
    /\ last.err = "panic"
    /\ commandTypes # {}
    /\ commandTypes # LogNames

(***************************************************************************)
(* Corruption: one byte of the checksummed part of a line Encode wrote is  *)
(* replaced by another byte, and the line is decoded with every name       *)
(* registered.  codec.pc goes "idle", "encoded", "corrupted", "reread".    *)
(***************************************************************************)
\* the highest byte value
MaxByte == 255

\* the entries whose lines are corrupted
CorruptEntries ==
    {NewLogEntry(1, 1, [name |-> NameN, val |-> <<120>>]),
     NewLogEntry(2, 2, [name |-> NameM, val |-> <<>>])}

\* the checksum and the space after it come first: the checksummed part of
\* a line is what follows them
ChecksummedPart(line) == 10..Len(line)

\* another byte takes the place of one byte of the checksummed part
Corrupt ==
    /\ codec.pc = "encoded"
    /\ \E at \in ChecksummedPart(codec.line), byte \in 0..MaxByte :
          /\ byte # codec.line[at]
          /\ codec' = [pc |-> "corrupted", entry |-> codec.entry, types |-> codec.types,
                       line |-> [codec.line EXCEPT ![at] = byte], at |-> at]
    /\ UNCHANGED logVars

\* Decode of the corrupted line
DecodeCorrupted ==
    /\ codec.pc = "corrupted"
    /\ codec' = [pc |-> "reread", entry |-> codec.entry, types |-> codec.types,
                 line |-> codec.line, at |-> codec.at,
                 result |-> Decode(codec.line, codec.types)]
    /\ UNCHANGED logVars

NextCorrupt ==
    \/ \E e \in CorruptEntries : CodecEncode(e, LogNames)
    \/ Corrupt
    \/ DecodeCorrupted

SpecCorrupt == InitCodec /\ [][NextCorrupt]_vars

(***************************************************************************)
(* C12.  Checksum sensitivity: after any single byte of the checksummed    *)
(* part of a line Encode wrote is changed, Decode fails and yields no      *)
(* entry: with the invalid-checksum error when the byte is not the         *)
(* terminating newline, and with the unexpected-EOF error when it is (the  *)
(* line then has no end).                                                  *)
(***************************************************************************)
C12_ChecksumSensitivity ==
    codec.pc = "reread"
        => /\ codec.result.err # ""
           /\ codec.result.command = NoCommand
           /\ codec.at < Len(codec.line) => codec.result.err = "crc"
           /\ codec.at = Len(codec.line) => codec.result.err = "eof"

\* C12 witness: a line with a byte changed inside it has been refused for its
\* checksum
C12_Witness ==
    /\ codec.pc = "reread"
    /\ codec.at < Len(codec.line)
    /\ codec.result.err = "crc"

\* C12 as first stated: Decode of the changed line fails with the
\* invalid-checksum error, whichever byte was changed
C12_AsStated == codec.pc = "reread" => codec.result.err = "crc"

\* the bytes of d past the first n
Past(d, n) == Drop(d, n)

\* s is a proper prefix of t
ProperPrefix(s, t) == Len(s) < Len(t) /\ s = Take(t, Len(s))

(***************************************************************************)
(* C13.  Partial commit on write failure: when a write fails during        *)
(* SetCommitIndex(index) on an open log, the call returns the error; the   *)
(* file has grown by the lines of the first k entries the call had to      *)
(* write (and by part of the line of the next); commitIndex is the index   *)
(* of the k-th, or unchanged when k = 0; and a SetCommitIndex(index) that  *)
(* follows, no write of which fails, writes the lines of the remaining     *)
(* entries after them, each once, and ends where the first call would      *)
(* have.  The entries the call had to write are those a call without       *)
(* failure writes from the same state.                                     *)
(***************************************************************************)
C13_PartialCommit ==
    [][(last'.op = "SetCommitIndex" /\ last'.err = "write" /\ file)
          => \E full \in {SetCommitIndexResult(TheLog, last'.index, -1, 0)} :
             \E todo \in {DiskEntries(Past(full.disk, Len(disk)))} :
             \E retry \in {SetCommitIndexResult(
                              [TheLog EXCEPT !.commitIndex = commitIndex', !.disk = disk'],
                              last'.index, -1, 0)} :
             \E k \in 0..(Len(todo) - 1) :
                /\ entries' = entries /\ file'
                /\ Take(disk', Len(disk) + Len(Lines(Take(todo, k))))
                      = disk \o Lines(Take(todo, k))
                /\ ProperPrefix(Past(disk', Len(disk) + Len(Lines(Take(todo, k)))),
                                Encode(todo[k + 1]))
                /\ commitIndex' = IF k = 0 THEN commitIndex ELSE todo[k].index
                /\ retry.err = ""
                /\ retry.disk = disk' \o Lines(Drop(todo, k))
                /\ retry.commitIndex = full.commitIndex]_vars

\* C13 witness: a SetCommitIndex has just failed on an open log after part of
\* a line reached the file, with an entry committed before and one still to
\* write
C13_Witness ==
    /\ last.op = "SetCommitIndex"
    /\ last.err = "write"
    /\ file
    /\ commitIndex > 0
    /\ commitIndex < last.index
    /\ disk # <<>>
    /\ disk[Len(disk)] # NL
    /\ SetCommitIndexResult(TheLog, last.index, -1, 0).disk # disk

\* what the replay loop of Open decodes from the file d under the registry
\* types, starting from nothing
Decoded(d, types) == Replay(d, types, <<>>, 0, 0).entries

(***************************************************************************)
(* C14.  After every successful Open, from any state of the instance that  *)
(* holds no file handle, the in-memory sequence is exactly the sequence    *)
(* of entries decoded from the file, in file order and without             *)
(* duplicates, and commitIndex is the index of the last of them if there   *)
(* is one.                                                                 *)
(***************************************************************************)
C14_OpenLoadsFile ==
    [][(last'.op = "Open" /\ last'.err = "" /\ file = FALSE)
          => \E es \in {Decoded(disk, commandTypes)} :
                /\ entries' = es
                /\ Len(es) > 0 => commitIndex' = es[Len(es)].index]_vars

(***************************************************************************)
(* C15.  Append and SetCommitIndex require the Open state: on a log that   *)
(* holds no file handle (never opened, closed, or left so by a failed      *)
(* Open) each of them returns an error and changes neither the entries,    *)
(* commitIndex nor the file.                                               *)
(***************************************************************************)
C15_RequireOpen ==
    file = FALSE
        => /\ \A entry \in LogEntries :
                 \E r \in {AppendResult(TheLog, entry)} : r.err # "" /\ Untouched(r)
           /\ \A index \in 0..MaxIndex :
                 \E r \in {SetCommitIndexResult(TheLog, index, -1, 0)} :
                    r.err # "" /\ Untouched(r)

(***************************************************************************)
(* C16.  If the reopening of the file in append mode fails at the end of   *)
(* Open, Open returns that error and the log is left unopened: it holds    *)
(* no file handle, and a following Append is rejected as 'not open' and    *)
(* adds nothing.                                                           *)
(***************************************************************************)
C16_FailedReopenLeavesUnopened ==
    \E r \in {OpenResult(TheLog, "append")} :
        /\ r.err = "append"
        /\ r.file = FALSE
        /\ \A entry \in LogEntries :
              \E a \in {AppendResult(r, entry)} :
                 a.err = "not open" /\ a.entries = r.entries /\ a.file = FALSE

\* C16 witness: an Open has just failed in the reopening of the file for
\* append, after it had read entries from it
C16_Witness ==
    /\ last.op = "Open"
    /\ last.err = "append"
    /\ file = FALSE
    /\ entries # <<>>
    /\ disk # <<>>

(***************************************************************************)
(* Concurrent callers.  Each caller makes calls of Open, Close, Append and *)
(* SetCommitIndex; a call waits at l.mutex.Lock(), runs its body one       *)
(* statement at a time, and returns through the deferred Unlock.  No I/O   *)
(* call fails.  callers[c].at is "idle", "lock", "body" or "unlock"; k is  *)
(* the position in the body, start the log as the body found it.           *)
(***************************************************************************)
\* the calls the callers make
MutexEntries ==
    {NewLogEntry(index, 1, [name |-> NameN, val |-> <<120>>]) : index \in Indexes}

MutexCalls ==
    {[op |-> op, entry |-> NewLogEntry(0, 0, NoCommand), index |-> 0] : op \in {"Open", "Close"}}
        \cup {[op |-> "Append", entry |-> e, index |-> 0] : e \in MutexEntries}
        \cup {[op |-> "SetCommitIndex", entry |-> NewLogEntry(0, 0, NoCommand), index |-> i] :
                 i \in Indexes}

\* a Lock that does not wait
CanLockAlways(m) == TRUE

\* Lock returns when the mutex is free
CanLock(m) == m = 0

\* the body has reached its return with err
Returns(l, c, err) == [log |-> l, caller |-> [c EXCEPT !.at = "unlock", !.err = err]]

\* the body goes on at position k
GoesOn(l, c, k) == [log |-> l, caller |-> [c EXCEPT !.k = k]]

\* the statements of Open: the replay loop, the truncation, the reopening
OpenStep(l, c) ==
    IF c.k = 0
    THEN IF ~l.exists THEN GoesOn(l, c, 2)
         ELSE CHOOSE next \in
                {GoesOn([l EXCEPT !.entries = r.entries, !.commitIndex = r.commitIndex],
                        [c EXCEPT !.cut = r.lastIndex], IF r.failed THEN 1 ELSE 2) :
                    r \in {Replay(l.disk, l.commandTypes, l.entries, l.commitIndex, 0)}} : TRUE
    ELSE IF c.k = 1 THEN GoesOn([l EXCEPT !.disk = Truncate(l.disk, c.cut)], c, 2)
    ELSE Returns([l EXCEPT !.file = TRUE, !.exists = TRUE], c, "")

\* the statements of Close
CloseStep(l, c) ==
    IF c.k = 0 THEN GoesOn([l EXCEPT !.file = FALSE], c, 1)
    ELSE Returns([l EXCEPT !.entries = <<>>], c, "")

\* the statements of Append: the checks, then the append
AppendStep(l, c) ==
    IF c.k = 0
    THEN IF AppendError(l.entries, l.file, c.entry) # ""
         THEN Returns(l, c, AppendError(l.entries, l.file, c.entry))
         ELSE GoesOn(l, c, 1)
    ELSE Returns([l EXCEPT !.entries = Append(l.entries, c.entry)], c, "")

\* the statements of SetCommitIndex: the check, then for the entry at
\* position k the write (c.cut = 0) and the assignment to commitIndex
SetCommitIndexStep(l, c) ==
    IF c.k = 0
    THEN IF c.index < l.commitIndex THEN Returns(l, c, "ahead") ELSE GoesOn(l, c, 1)
    ELSE IF c.k > Len(l.entries) THEN Returns(l, c, "")
    ELSE IF c.cut = 1
    THEN GoesOn([l EXCEPT !.commitIndex = l.entries[c.k].index], [c EXCEPT !.cut = 0], c.k + 1)
    ELSE IF l.entries[c.k].index > l.commitIndex /\ l.entries[c.k].index <= c.index
    THEN IF ~l.file THEN Returns(l, c, "write")
         ELSE GoesOn([l EXCEPT !.disk = l.disk \o EncodedLine[l.entries[c.k]]],
                     [c EXCEPT !.cut = 1], c.k)
    ELSE GoesOn(l, c, c.k + 1)

BodyStep(l, c) ==
    IF c.op = "Open" THEN OpenStep(l, c)
    ELSE IF c.op = "Close" THEN CloseStep(l, c)
    ELSE IF c.op = "Append" THEN AppendStep(l, c)
    ELSE SetCommitIndexStep(l, c)

\* the call as one step of the log l
CallResult(l, c) ==
    IF c.op = "Open" THEN OpenResult(l, "none")
    ELSE IF c.op = "Close" THEN CloseResult(l)
    ELSE IF c.op = "Append" THEN AppendResult(l, c.entry)
    ELSE SetCommitIndexResult(l, c.index, -1, 0)

InitMutex ==
    /\ file = FALSE
    /\ entries = <<>>
    /\ commitIndex = 0
    /\ commandTypes = LogNames
    /\ last = Result("AddCommandType", "", 0)
    /\ faults = MaxFaults
    /\ mutex = 0
    /\ callers = [c \in Callers |-> Idle(0)]
    /\ exists = FALSE
    /\ disk = <<>>
    /\ codec = CodecIdle

\* caller c starts a call
Call(c, call) ==
    /\ callers[c].at = "idle"
    /\ callers[c].calls < MaxCalls
    /\ callers' = [callers EXCEPT ![c] =
                      [at |-> "lock", calls |-> callers[c].calls, op |-> call.op,
                       entry |-> call.entry, index |-> call.index, k |-> 0, cut |-> 0,
                       err |-> "", start |-> TheLog]]
    /\ UNCHANGED <<file, entries, commitIndex, commandTypes, exists, disk, last, faults,
                   codec, mutex>>

\* l.mutex.Lock() returns in caller c
Lock(c) ==
    /\ callers[c].at = "lock"
    /\ CanLock(mutex)
    /\ mutex' = c
    /\ callers' = [callers EXCEPT ![c] = [@ EXCEPT !.at = "body", !.start = TheLog]]
    /\ UNCHANGED <<file, entries, commitIndex, commandTypes, exists, disk, last, faults, codec>>

\* caller c executes the next statement of its body
Body(c) ==
    /\ callers[c].at = "body"
    /\ \E next \in {BodyStep(TheLog, callers[c])} :
          /\ file' = next.log.file
          /\ entries' = next.log.entries
          /\ commitIndex' = next.log.commitIndex
          /\ exists' = next.log.exists
          /\ disk' = next.log.disk
          /\ callers' = [callers EXCEPT ![c] = next.caller]
    /\ UNCHANGED <<commandTypes, last, faults, codec, mutex>>

\* the deferred l.mutex.Unlock(), and the return to caller c
Unlock(c) ==
    /\ callers[c].at = "unlock"
    /\ mutex' = 0
    /\ last' = Result(callers[c].op, callers[c].err, callers[c].index)
    /\ callers' = [callers EXCEPT ![c] = Idle(callers[c].calls + 1)]
    /\ UNCHANGED <<file, entries, commitIndex, commandTypes, exists, disk, faults, codec>>

NextMutex ==
    \E c \in Callers :
        \/ \E call \in MutexCalls : Call(c, call)
        \/ Lock(c)
        \/ Body(c)
        \/ Unlock(c)

SpecMutex == InitMutex /\ [][NextMutex]_vars

\* the callers that are between their Lock and their Unlock
InBody == {c \in Callers : callers[c].at \in {"body", "unlock"}}

(***************************************************************************)
(* C17.  Open, Close, Append and SetCommitIndex on one Log are mutually    *)
(* exclusive: at most one caller is between its Lock and its Unlock, and   *)
(* it holds the mutex; and when a call reaches its return, the log is      *)
(* what the call as one step makes of the log the body started on, with    *)
(* the same error, so the state is that of the calls in the order of       *)
(* their Locks.                                                            *)
(***************************************************************************)
C17_MutualExclusion ==
    /\ Cardinality(InBody) <= 1
    /\ \A c \in InBody : mutex = c
    /\ InBody = {} => mutex = 0
    /\ \A c \in Callers :
          callers[c].at = "unlock"
              => [TheLog EXCEPT !.err = callers[c].err] = CallResult(callers[c].start, callers[c])

\* C17 witness: one caller is in the body of SetCommitIndex, between its write
\* and its assignment to commitIndex, while the other waits at Lock
C17_Witness ==
    \E c, d \in Callers :
        /\ callers[c].at = "body"
        /\ callers[c].op = "SetCommitIndex"
        /\ callers[c].cut = 1
        /\ callers[d].at = "lock"

(***************************************************************************)
(* Trailing bytes: a line is written as Encode writes it, but with bytes   *)
(* between the serialized command and the newline, the checksum being      *)
(* that of the line as written; it is then decoded with every name         *)
(* registered.                                                             *)
(***************************************************************************)
\* the trailing bytes tried: "z", " z", "}" and "zz"
Trailers == {<<122>>, <<SP, 122>>, <<RBRACE>>, <<122, 122>>}

\* the line of e with the bytes g after its command
TrailedLine(e, g) ==
    LET b == Take(EncodeLine(e), Len(EncodeLine(e)) - 1) \o g \o <<NL>>
    IN  HexWord(ChecksumIEEE(b)) \o <<SP>> \o b

TrailedEncode(e, g) ==
    /\ codec.pc = "idle"
    /\ codec' = [pc |-> "encoded", entry |-> e, types |-> CodecNames, line |-> TrailedLine(e, g)]
    /\ UNCHANGED logVars

NextTrailed ==
    \/ \E e \in CodecEntries, g \in Trailers : TrailedEncode(e, g)
    \/ CodecDecode

SpecTrailed == InitCodec /\ [][NextTrailed]_vars

(***************************************************************************)
(* C18.  Decode rejects trailing garbage: for every checksum-valid line    *)
(* in which bytes other than the newline follow the serialized command     *)
(* (the command's name being a registered token), Decode returns the       *)
(* error that reports the unexpected byte and yields no entry.             *)
(***************************************************************************)
C18_TrailingGarbageRejected ==
    (codec.pc = "decoded" /\ IsToken(codec.entry.command.name))
        => codec.result.err = "eol" /\ codec.result.command = NoCommand

(***************************************************************************)
(* The log used as its state machine prescribes, Open being called only    *)
(* on a Log that holds no file handle (never opened, closed, or left       *)
(* unopened by an Open that failed).  The other operations are called in   *)
(* any state, as in Spec.                                                  *)
(***************************************************************************)
OpenUnopened ==
    /\ file = FALSE
    /\ Open

NextUnopened ==
    \/ \E name \in LogNames \cup {NilCommand} : AddCommandType(name)
    \/ OpenUnopened
    \/ Close
    \/ \E index \in 0..MaxIndex, budget \in Budgets : \E part \in Parts(budget) :
          SetCommitIndex(index, budget, part)
    \/ \E entry \in LogEntries : AppendEntry(entry)

SpecUnopened == Init /\ [][NextUnopened]_vars

C20_OpenCutsOnlyBadLines ==
    [][(last'.op = "Open" /\ disk' # disk)
          => /\ Len(disk') < Len(disk)
             /\ disk' = Take(disk, Len(disk'))
             /\ Decode(Drop(disk, Len(disk')), LogNames).err # ""]_vars

====
